---- MODULE Spec2Model ----
\* Model of the Tic Tac Toe backend (src/tic_tac_toe_backend/src/api):
\* the games and moves tables, the game-logic helpers of routes.py and the
\* create_game / get_game_state / make_move endpoints.
EXTENDS Integers, Sequences, FiniteSets, TLC

VARIABLES
    games,     \* the games table: row id -> [player_x_id, player_o_id, state, winner]
    moves,     \* the moves table, in insertion order (Move.id = position)
    response,  \* the last HTTP response sent, with the request it answers
    sessions,  \* requests in flight between their SELECT and their commit
    probe      \* a board handed to check_winner on its own, and the result

vars == <<games, moves, response, sessions, probe>>

\* ---------------------------------------------------------------- bounds
\* At each turn the clients of Spec, SpecConc, SpecMulti and SpecLive choose
\* among the MaxChoices empty cells of lowest index (and, except in
\* SpecLive, the occupied cell of lowest index and the out-of-range
\* values); SpecFull lets them choose any empty cell.
MaxChoices == 2
\* Number of database sessions (requests in flight) in SpecConc.
MaxSessions == 2
\* Rows the moves table may hold in SpecConc, where lost updates let the
\* log of one game grow without limit.
MaxMoveRows == 3
\* Number of games, and rows the moves table may hold, in SpecMulti.
MaxGames == 2
MaxMultiRows == 3

\* ------------------------------------------------------------- constants
\* Length of the state string "---------" a game is created with.
BoardLen == 9
\* MoveRequest.move_index: Field(..., ge=0, le=8).
MinIndex == 0
MaxIndex == 8

\* Python's None
None == "None"

\* Rows of the users table. routes.py has no endpoint that inserts users, so
\* the table is fixed; UnknownUser is an id with no row.
Users == {1, 2}
UnknownUser == Cardinality(Users) + 1
PlayerIds == Users \cup {UnknownUser}

Cells == 0 .. (BoardLen - 1)
\* Mutant: the literal of create_game one dash short.
EmptyBoard_short == [i \in 0 .. (BoardLen - 2) |-> "-"]
\* "---------"
EmptyBoard == [i \in Cells |-> "-"]
\* Every string of nine characters over "-", "X", "O".
Boards == [Cells -> {"-", "X", "O"}]

\* move_index values outside the range: one integer on either side.
OutOfRange == {MinIndex - 1, MaxIndex + 1}

\* ------------------------------------------------------ game logic (pure)
\* state.count(ch)
Count(state, ch) == Cardinality({i \in DOMAIN state : state[i] = ch})

\* Mutant: the parity test inverted, so that O would start.
get_current_turn_inverted(state) ==
    LET moves_count == 9 - Count(state, "-")
    IN  IF moves_count % 2 = 0 THEN "O" ELSE "X"

get_current_turn(state) ==
    LET moves_count == 9 - Count(state, "-")
    IN  IF moves_count % 2 = 0 THEN "X" ELSE "O"

\* Mutant: the second diagonal mistyped as [2,4,7].
lines_mistyped == << <<0,1,2>>, <<3,4,5>>, <<6,7,8>>,
                     <<0,3,6>>, <<1,4,7>>, <<2,5,8>>,
                     <<0,4,8>>, <<2,4,7>> >>

\* The `lines` list of check_winner, in its order.
lines == << <<0,1,2>>, <<3,4,5>>, <<6,7,8>>,
            <<0,3,6>>, <<1,4,7>>, <<2,5,8>>,
            <<0,4,8>>, <<2,4,6>> >>

\* Mutant: the comparison with the third cell left out,
\* state[a] == state[b] and state[a] in "XO".
LineComplete_two_cells(state, line) ==
    /\ state[line[1]] = state[line[2]]
    /\ state[line[1]] \in {"X", "O"}

\* state[a] == state[b] == state[c] and state[a] in "XO"
LineComplete(state, line) ==
    /\ state[line[1]] = state[line[2]]
    /\ state[line[2]] = state[line[3]]
    /\ state[line[1]] \in {"X", "O"}

\* The for loop of check_winner from index k on, then the draw test.
RECURSIVE ScanLines(_, _)
ScanLines(state, k) ==
    IF k > Len(lines)
    THEN IF \A i \in DOMAIN state : state[i] # "-" THEN "draw" ELSE None
    ELSE IF LineComplete(state, lines[k])
         THEN state[lines[k][1]]
         ELSE ScanLines(state, k + 1)

\* Mutant: the draw test of line 70 run before the loop over the lines.
check_winner_draw_first(state) ==
    IF \A i \in DOMAIN state : state[i] # "-" THEN "draw" ELSE ScanLines(state, 1)

check_winner(state) == ScanLines(state, 1)

\* Mutant: the slice after the cell starting one cell late,
\* game.state[:i] + player_type + game.state[i + 2:] padded back to nine
\* characters, which shifts the rest of the board.
new_state_shifted(state, i, player_type) ==
    [j \in DOMAIN state |->
        IF j < i THEN state[j]
        ELSE IF j = i THEN player_type
        ELSE IF j + 1 \in DOMAIN state THEN state[j + 1]
        ELSE "-"]

\* game.state[:i] + player_type + game.state[i + 1:]
new_state(state, i, player_type) == [state EXCEPT ![i] = player_type]

\* ------------------------------------------------------------- responses
\* What a request got back: the request it answers, the status code, the
\* detail of the HTTPException or the GameState body of a success.
NoBody == [state |-> << >>, winner |-> None, moves |-> << >>,
           player_x |-> 0, player_o |-> 0]

Response(op, game_id, player_id, move_index, status, detail) ==
    [op |-> op, game_id |-> game_id, player_id |-> player_id,
     move_index |-> move_index, status |-> status, detail |-> detail,
     player_x_id |-> 0, player_o_id |-> 0, body |-> NoBody]

\* Mutant: the moves of the GameState listed in move_index order.
to_gamestate_by_index(gs, ms, game_id) ==
    LET rows == {ms[k] : k \in {j \in DOMAIN ms : ms[j].game_id = game_id}}
    IN  [state |-> gs[game_id].state,
         winner |-> gs[game_id].winner,
         moves |-> [k \in 1 .. Cardinality(rows) |->
                      (CHOOSE m \in rows :
                          Cardinality({r \in rows : r.move_index < m.move_index})
                              = k - 1).move_index],
         player_x |-> gs[game_id].player_x_id,
         player_o |-> gs[game_id].player_o_id]

\* _to_gamestate(game) on the tables gs (games) and ms (moves): game.moves
\* are the rows of the game, listed by sorted(..., key=lambda m: m.id).
to_gamestate(gs, ms, game_id) ==
    LET rows == {ms[k] : k \in {j \in DOMAIN ms : ms[j].game_id = game_id}}
    IN  [state |-> gs[game_id].state,
         winner |-> gs[game_id].winner,
         moves |-> [k \in 1 .. Cardinality(rows) |->
                      (CHOOSE m \in rows :
                          Cardinality({r \in rows : r.id < m.id})
                              = k - 1).move_index],
         player_x |-> gs[game_id].player_x_id,
         player_o |-> gs[game_id].player_o_id]

NoResponse == Response("none", 0, 0, 0, 0, "none")

Idle == [pc |-> "idle"]
NoProbe == [state |-> EmptyBoard, result |-> "unset"]

\* ----------------------------------------------------------------- Init
\* An empty database, no request in flight.
Init ==
    /\ games = << >>
    /\ moves = << >>
    /\ response = NoResponse
    /\ sessions = [s \in 1 .. MaxSessions |-> Idle]
    /\ probe = NoProbe

\* ----------------------------------------------------------- create_game
\* Mutant: each of the two ids looked up on its own (one result per id
\* asked for, instead of the rows of one IN query).
UsersFound_each(x, o) == {k \in 1 .. 2 : <<x, o>>[k] \in Users}

\* select(User).where(User.id.in_([x, o])): the rows found.
UsersFound(x, o) == {u \in Users : u = x \/ u = o}

create_game(player_x_id, player_o_id) ==
    /\ IF Cardinality(UsersFound(player_x_id, player_o_id)) # 2
       THEN /\ response' = [Response("create_game", 0, 0, 0, 404,
                                     "Both users must exist.")
                               EXCEPT !.player_x_id = player_x_id,
                                      !.player_o_id = player_o_id]
            /\ UNCHANGED <<games, moves>>
       ELSE /\ games' = Append(games, [player_x_id |-> player_x_id,
                                        player_o_id |-> player_o_id,
                                        state |-> EmptyBoard,
                                        winner |-> None])
            /\ UNCHANGED moves
            /\ response' = [Response("create_game", Len(games) + 1, 0, 0,
                                     200, "ok")
                               EXCEPT !.player_x_id = player_x_id,
                                      !.player_o_id = player_o_id,
                                      !.body = to_gamestate(games', moves',
                                                            Len(games) + 1)]
    /\ UNCHANGED <<sessions, probe>>

\* ------------------------------------------------------------- make_move
\* Mutant: the player_type expression with a plain else, whoever is not
\* player_x taken for O.
PlayerType_else_O(game, player_id) ==
    IF player_id = game.player_x_id THEN "X" ELSE "O"

\* Mutant: both branches of the player_type expression giving "X".
PlayerType_both_X(game, player_id) ==
    IF player_id = game.player_x_id THEN "X"
    ELSE IF player_id = game.player_o_id THEN "X"
    ELSE None

\* The player_type expression of make_move.
PlayerType(game, player_id) ==
    IF player_id = game.player_x_id THEN "X"
    ELSE IF player_id = game.player_o_id THEN "O"
    ELSE None

\* Mutant: the occupied-square check of line 142 left out.
CheckMove_no_taken(game, player_id, move_index) ==
    LET player_type == PlayerType(game, player_id)
    IN  IF game.winner # None
        THEN <<400, "Game already finished">>
        ELSE IF player_type = None
        THEN <<403, "Not a participant in this game">>
        ELSE IF player_type # get_current_turn(game.state)
        THEN <<400, "It is not " \o player_type \o "'s turn">>
        ELSE IF ~(0 <= move_index /\ move_index <= 8)
        THEN <<400, "move_index must be [0,8]">>
        ELSE <<200, "ok">>

\* Mutant: the participant check of line 133 run before the finished check
\* of line 129.
CheckMove_participant_first(game, player_id, move_index) ==
    LET player_type == PlayerType(game, player_id)
    IN  IF player_type = None
        THEN <<403, "Not a participant in this game">>
        ELSE IF game.winner # None
        THEN <<400, "Game already finished">>
        ELSE IF player_type # get_current_turn(game.state)
        THEN <<400, "It is not " \o player_type \o "'s turn">>
        ELSE IF ~(0 <= move_index /\ move_index <= 8)
        THEN <<400, "move_index must be [0,8]">>
        ELSE IF game.state[move_index] # "-"
        THEN <<400, "Square already taken">>
        ELSE <<200, "ok">>

\* Mutant: the finished check of line 129 left out.
CheckMove_no_finished(game, player_id, move_index) ==
    LET player_type == PlayerType(game, player_id)
    IN  IF player_type = None
        THEN <<403, "Not a participant in this game">>
        ELSE IF player_type # get_current_turn(game.state)
        THEN <<400, "It is not " \o player_type \o "'s turn">>
        ELSE IF ~(0 <= move_index /\ move_index <= 8)
        THEN <<400, "move_index must be [0,8]">>
        ELSE IF game.state[move_index] # "-"
        THEN <<400, "Square already taken">>
        ELSE <<200, "ok">>

\* The checks of the body of make_move on the game row it selected, in the
\* order they run: <<status, detail>> of the first that raises, else 200.
CheckMove(game, player_id, move_index) ==
    LET player_type == PlayerType(game, player_id)
    IN  IF game.winner # None
        THEN <<400, "Game already finished">>
        ELSE IF player_type = None
        THEN <<403, "Not a participant in this game">>
        ELSE IF player_type # get_current_turn(game.state)
        THEN <<400, "It is not " \o player_type \o "'s turn">>
        ELSE IF ~(0 <= move_index /\ move_index <= 8)
        THEN <<400, "move_index must be [0,8]">>
        ELSE IF game.state[move_index] # "-"
        THEN <<400, "Square already taken">>
        ELSE <<200, "ok">>

\* Mutant: the body of make_move entered without the MoveRequest validation
\* (move_index declared a plain int).
Validate_no_schema(game_id, player_id, move_index) ==
    IF game_id \notin DOMAIN games
    THEN <<404, "Game not found">>
    ELSE CheckMove(games[game_id], player_id, move_index)

\* The request as FastAPI handles it: the MoveRequest body is validated
\* (ge=0, le=8) before make_move is entered, then the game is selected.
Validate(game_id, player_id, move_index) ==
    IF ~(MinIndex <= move_index /\ move_index <= MaxIndex)
    THEN <<422, "move_index: ge=0, le=8">>
    ELSE IF game_id \notin DOMAIN games
    THEN <<404, "Game not found">>
    ELSE CheckMove(games[game_id], player_id, move_index)

\* Mutant: the new state and winner written to every row of the games
\* table (an UPDATE that lost its WHERE id = game_id).
ApplyMove_update_all(game_id, game, player_id, move_index) ==
    LET player_type == PlayerType(game, player_id)
        ns == new_state(game.state, move_index, player_type)
        winner == check_winner(ns)
    IN  /\ moves' = Append(moves, [id |-> Len(moves) + 1,
                                   game_id |-> game_id,
                                   player_id |-> player_id,
                                   move_index |-> move_index])
        /\ games' = [h \in DOMAIN games |->
                        [games[h] EXCEPT !.state = ns,
                                         !.winner = IF winner # None
                                                    THEN winner ELSE @]]

\* Mutant: check_winner called on game.state before the assignment of line
\* 152, that is on the board without the move.
ApplyMove_stale_winner(game_id, game, player_id, move_index) ==
    LET player_type == PlayerType(game, player_id)
        ns == new_state(game.state, move_index, player_type)
        winner == check_winner(game.state)
    IN  /\ moves' = Append(moves, [id |-> Len(moves) + 1,
                                   game_id |-> game_id,
                                   player_id |-> player_id,
                                   move_index |-> move_index])
        /\ games' = [games EXCEPT ![game_id] =
                        [@ EXCEPT !.state = ns,
                                  !.winner = IF winner # None THEN winner ELSE @]]

\* Lines 145-157: the new state string and winner computed from the game
\* object the handler loaded (`game`), the INSERT of the Move row and the
\* UPDATE of the changed columns of the games row, committed together.
ApplyMove(game_id, game, player_id, move_index) ==
    LET player_type == PlayerType(game, player_id)
        ns == new_state(game.state, move_index, player_type)
        winner == check_winner(ns)
    IN  /\ moves' = Append(moves, [id |-> Len(moves) + 1,
                                   game_id |-> game_id,
                                   player_id |-> player_id,
                                   move_index |-> move_index])
        /\ games' = [games EXCEPT ![game_id] =
                        [@ EXCEPT !.state = ns,
                                  !.winner = IF winner # None THEN winner ELSE @]]

\* Mutant: the occupied-square check run after the commit, so that the
\* request fails with the row inserted and the state string overwritten.
make_move_late_check(game_id, player_id, move_index) ==
    LET v == Validate(game_id, player_id, move_index)
    IN  /\ IF v[1] = 200 \/ v[2] = "Square already taken"
           THEN ApplyMove(game_id, games[game_id], player_id, move_index)
           ELSE UNCHANGED <<games, moves>>
        /\ response' = [Response("make_move", game_id, player_id, move_index,
                                 v[1], v[2])
                           EXCEPT !.body = IF v[1] = 200
                                           THEN to_gamestate(games', moves',
                                                             game_id)
                                           ELSE NoBody]
        /\ UNCHANGED <<sessions, probe>>

\* One make_move request served without interleaving: an HTTPException
\* leaves the session uncommitted, otherwise lines 145-157 run and the
\* refreshed game is returned (lines 158-160).
make_move(game_id, player_id, move_index) ==
    LET v == Validate(game_id, player_id, move_index)
    IN  /\ IF v[1] = 200
           THEN ApplyMove(game_id, games[game_id], player_id, move_index)
           ELSE UNCHANGED <<games, moves>>
        /\ response' = [Response("make_move", game_id, player_id, move_index,
                                 v[1], v[2])
                           EXCEPT !.body = IF v[1] = 200
                                           THEN to_gamestate(games', moves',
                                                             game_id)
                                           ELSE NoBody]
        /\ UNCHANGED <<sessions, probe>>

\* -------------------------------------------------------- get_game_state
\* The SELECT of the game with its moves, and the row as it is turned into
\* a GameState; nothing is written.
get_game_state(game_id) ==
    /\ response' = IF game_id \notin DOMAIN games
                   THEN Response("get_game_state", game_id, 0, 0, 404,
                                 "Game not found")
                   ELSE [Response("get_game_state", game_id, 0, 0, 200, "ok")
                            EXCEPT !.body = to_gamestate(games, moves, game_id)]
    /\ UNCHANGED <<games, moves, sessions, probe>>

\* ------------------------------------------------------------ the clients
\* The k lowest elements of a set of integers.
Lowest(S, k) == {x \in S : Cardinality({y \in S : y < x}) < k}

EmptyCells(state) == {i \in Cells : state[i] = "-"}

\* Game ids a client names: every game there is, and one there is not.
RequestGameIds == 1 .. (Len(games) + 1)

\* move_index values the clients of Spec and SpecConc send for a game: the
\* out-of-range values, the occupied cell of lowest index and the MaxChoices
\* empty cells of lowest index.
RequestIndexes(game_id) ==
    IF game_id \in DOMAIN games
    THEN OutOfRange
         \cup Lowest(Cells \ EmptyCells(games[game_id].state), 1)
         \cup Lowest(EmptyCells(games[game_id].state), MaxChoices)
    ELSE OutOfRange \cup {MinIndex}

\* The moves table rows of one game, in id order.
Log(game_id) == SelectSeq(moves, LAMBDA m : m.game_id = game_id)

\* ----------------------------------------------------------------- Spec
\* One game, requests served one at a time, any client sending anything.
Next ==
    \/ /\ games = << >>
       /\ \E x \in PlayerIds, o \in PlayerIds : create_game(x, o)
    \/ \E g \in RequestGameIds :
         \E i \in RequestIndexes(g), p \in PlayerIds : make_move(g, p, i)

Spec == Init /\ [][Next]_vars

\* ------------------------------------------------------------- SpecFull
\* One game between users 1 and 2 who take turns (the player at an even
\* log length is player_x) and may choose ANY empty cell, and who go on
\* sending such requests after the game has ended: every board that
\* sequential play can produce is reached.
PlayerDue(game_id) ==
    IF Len(Log(game_id)) % 2 = 0 THEN games[game_id].player_x_id
                                 ELSE games[game_id].player_o_id

NextFull ==
    \/ /\ games = << >>
       /\ \E x \in Users, o \in Users : x < o /\ create_game(x, o)
    \/ \E g \in DOMAIN games :
         \E i \in EmptyCells(games[g].state) : make_move(g, PlayerDue(g), i)

SpecFull == Init /\ [][NextFull]_vars

\* ------------------------------------------------------------- SpecLive
\* One game between users 1 and 2, either of whom may ask at any time for
\* one of the MaxChoices empty cells of lowest index, and who keep
\* submitting legal moves: the request of the player due for such a cell
\* is not put off for ever.
LegalMove ==
    \E g \in DOMAIN games :
       \E i \in Lowest(EmptyCells(games[g].state), MaxChoices) :
          games[g].winner = None /\ make_move(g, PlayerDue(g), i)

NextLive ==
    \/ /\ games = << >>
       /\ \E x \in Users, o \in Users : x < o /\ create_game(x, o)
    \/ \E g \in DOMAIN games :
         \E i \in Lowest(EmptyCells(games[g].state), MaxChoices), p \in Users :
            make_move(g, p, i)

SpecLive == Init /\ [][NextLive]_vars /\ WF_vars(LegalMove)

\* ------------------------------------------------------------- SpecConc
\* One game, MaxSessions requests in flight. Each request runs in its own
\* AsyncSession (get_db) and gives up control at its awaits: the SELECT of
\* line 125 and the commit of line 157. Everything between the two runs
\* without interruption on the Game object the SELECT loaded.

\* Line 125 to line 156 of one request: the SELECT, the checks, and (none
\* having raised) the handler waiting at `await db.commit()` with the Game
\* object it loaded.
make_move_select(s, game_id, player_id, move_index) ==
    LET v == Validate(game_id, player_id, move_index)
    IN  /\ sessions[s].pc = "idle"
        /\ Len(moves) + Cardinality({t \in DOMAIN sessions :
                                        sessions[t].pc = "loaded"}) < MaxMoveRows
        /\ IF v[1] = 200
           THEN /\ sessions' = [sessions EXCEPT ![s] =
                                    [pc |-> "loaded", game_id |-> game_id,
                                     player_id |-> player_id,
                                     move_index |-> move_index,
                                     game |-> games[game_id]]]
                /\ UNCHANGED <<games, moves, response>>
           ELSE /\ response' = Response("make_move", game_id, player_id,
                                        move_index, v[1], v[2])
                /\ UNCHANGED <<games, moves, sessions>>
        /\ UNCHANGED probe

\* Line 157 of one request: the flush and commit. The UPDATE writes the
\* columns the handler assigned, computed from the Game object it loaded,
\* over whatever the row holds by now.
make_move_commit(s) ==
    /\ sessions[s].pc = "loaded"
    /\ ApplyMove(sessions[s].game_id, sessions[s].game,
                 sessions[s].player_id, sessions[s].move_index)
    /\ response' = [Response("make_move", sessions[s].game_id,
                             sessions[s].player_id, sessions[s].move_index,
                             200, "ok")
                       EXCEPT !.body = to_gamestate(games', moves',
                                                    sessions[s].game_id)]
    /\ sessions' = [sessions EXCEPT ![s] = Idle]
    /\ UNCHANGED probe

NextConc ==
    \/ /\ games = << >>
       /\ \E x \in Users, o \in Users : create_game(x, o)
    \/ \E s \in DOMAIN sessions, g \in DOMAIN games :
         \E i \in RequestIndexes(g), p \in PlayerIds :
            make_move_select(s, g, p, i)
    \/ \E s \in DOMAIN sessions : make_move_commit(s)
    \/ \E g \in DOMAIN games : get_game_state(g)

SpecConc == Init /\ [][NextConc]_vars

\* ------------------------------------------------------------ SpecMulti
\* Up to MaxGames games, requests served one at a time and addressed to
\* any game in any order, until the moves table holds MaxMultiRows rows.
\* create_game is asked for every pair of ids x <= o, known or unknown.
NextMulti ==
    \/ /\ Len(games) < MaxGames
       /\ \E x \in PlayerIds, o \in PlayerIds : x <= o /\ create_game(x, o)
    \/ /\ Len(moves) < MaxMultiRows
       /\ \E g \in RequestGameIds :
            \E i \in RequestIndexes(g), p \in PlayerIds : make_move(g, p, i)
    \/ \E g \in RequestGameIds : get_game_state(g)

SpecMulti == Init /\ [][NextMulti]_vars

\* ------------------------------------------------------------- SpecPure
\* check_winner called on its own on any string of nine characters over
\* "-", "X", "O".
InitPure ==
    /\ games = << >>
    /\ moves = << >>
    /\ response = NoResponse
    /\ sessions = [s \in 1 .. MaxSessions |-> Idle]
    /\ probe \in {[state |-> b, result |-> "unset"] : b \in Boards}

call_check_winner ==
    /\ probe.result = "unset"
    /\ probe' = [probe EXCEPT !.result = check_winner(probe.state)]
    /\ UNCHANGED <<games, moves, response, sessions>>

NextPure == call_check_winner

SpecPure == InitPure /\ [][NextPure]_vars

\* ======================================================================
\* Properties
\* ======================================================================
\* The eight lines of the grid, as sets of cells: rows, columns, diagonals.
WinLines ==
    {{3 * r, 3 * r + 1, 3 * r + 2} : r \in 0 .. 2}
    \cup {{c, c + 3, c + 6} : c \in 0 .. 2}
    \cup {{0, 4, 8}, {2, 4, 6}}

Filled(state, L, m) == \A i \in L : state[i] = m
HasLine(state, m) == \E L \in WinLines : Filled(state, L, m)
Other(m) == IF m = "X" THEN "O" ELSE "X"

\* The mark the i-th accepted move (from 0) places, and who makes it.
MarkOfMove(i) == IF i % 2 = 0 THEN "X" ELSE "O"
PlayerOfMove(game, i) == IF i % 2 = 0 THEN game.player_x_id ELSE game.player_o_id

\* C1 - Turn alternation: in every reachable state of a game the i-th row of
\* its move log (from 0) was made by player_x_id and its cell holds X when i
\* is even, by player_o_id and holds O when i is odd; and the board holds as
\* many X as O, or one more.
C1_TurnAlternation ==
    \A g \in DOMAIN games :
        LET log == Log(g)
            game == games[g]
        IN  /\ \A k \in 1 .. Len(log) :
                  /\ log[k].player_id = PlayerOfMove(game, k - 1)
                  /\ log[k].move_index \in Cells
                  /\ game.state[log[k].move_index] = MarkOfMove(k - 1)
            /\ Count(game.state, "X") - Count(game.state, "O") \in {0, 1}

\* A game played to its ninth move and won by X, who is the user of higher id.
C1_Witness ==
    /\ games # << >>
    /\ Len(Log(1)) = 9
    /\ games[1].winner = "X"
    /\ games[1].player_x_id = 2

\* C2 - Occupancy/log agreement: in every reachable state the number of Move
\* rows of a game is 9 minus the number of "-" in its state string, the
\* move_index values of the rows are exactly the occupied cells, and no
\* cell appears in two rows.
C2_OccupancyLogAgreement ==
    \A g \in DOMAIN games :
        LET log == Log(g)
            state == games[g].state
        IN  /\ Len(log) = 9 - Count(state, "-")
            /\ {log[k].move_index : k \in 1 .. Len(log)} = Cells \ EmptyCells(state)
            /\ \A j, k \in 1 .. Len(log) :
                  j # k => log[j].move_index # log[k].move_index

\* A drawn game: nine rows, no empty cell.
C2_Witness ==
    /\ games # << >>
    /\ games[1].winner = "draw"
    /\ Len(Log(1)) = 9
    /\ EmptyCells(games[1].state) = {}

\* A make_move response, and the step that sends one.
IsMoveResponse(r) == r.op = "make_move"
Rejected(r) == IsMoveResponse(r) /\ r.status # 200
Accepted(r) == IsMoveResponse(r) /\ r.status = 200

\* C3 - Rejection is a no-op: a step in which make_move answers with an
\* error leaves the games table (state strings, winners) and the moves
\* table as they were.
C3_RejectionIsNoOp ==
    [][Rejected(response') => (games' = games /\ moves' = moves)]_vars

\* A request for an occupied cell is rejected on a game that has moves.
C3_Witness ==
    /\ Rejected(response)
    /\ response.detail = "Square already taken"
    /\ response.game_id \in DOMAIN games
    /\ Len(Log(response.game_id)) >= 2

\* The detail of the error FastAPI sends for a MoveRequest out of range.
SchemaDetail == "move_index: ge=0, le=8"

ReasonOf(detail) ==
    IF detail = "Game already finished" THEN "MatchFinished"
    ELSE IF detail = "Not a participant in this game" THEN "NotAParticipant"
    ELSE IF detail \in {SchemaDetail, "move_index must be [0,8]"}
         THEN "PositionOutOfRange"
    ELSE IF detail \in {"It is not X's turn", "It is not O's turn"}
         THEN "NotYourTurn"
    ELSE IF detail = "Square already taken" THEN "CellOccupied"
    ELSE "Other"

\* The legality rules a request violates on a game with `n` moves logged.
Violations(game, n, player_id, move_index) ==
    {r \in {"MatchFinished", "NotAParticipant", "PositionOutOfRange",
            "NotYourTurn", "CellOccupied"} :
        \/ r = "MatchFinished" /\ game.winner \in {"X", "O", "draw"}
        \/ r = "NotAParticipant"
             /\ player_id \notin {game.player_x_id, game.player_o_id}
        \/ r = "PositionOutOfRange" /\ move_index \notin 0 .. 8
        \/ r = "NotYourTurn"
             /\ (IF player_id = game.player_x_id THEN "X" ELSE "O") # MarkOfMove(n)
        \/ r = "CellOccupied" /\ move_index \in 0 .. 8
             /\ game.state[move_index] # "-"}

\* The first element of the sequence `order` that is in V.
FirstOf(order, V) ==
    order[CHOOSE k \in DOMAIN order :
             order[k] \in V /\ \A j \in 1 .. (k - 1) : order[j] \notin V]

ClaimedOrder == <<"MatchFinished", "NotAParticipant", "PositionOutOfRange",
                  "NotYourTurn", "CellOccupied">>
AmendedOrder == <<"PositionOutOfRange", "MatchFinished", "NotAParticipant",
               "NotYourTurn", "CellOccupied">>

\* The last request was a make_move on an existing game that was rejected,
\* and the reason reported is the first rule of `order` it violates. (A
\* rejection changes neither table, C3, so the game the response names is
\* still as the request found it.)
ReportsFirstOf(order) ==
    (Rejected(response) /\ response.game_id \in DOMAIN games)
    => LET g == response.game_id
           V == Violations(games[g], Len(Log(g)), response.player_id,
                           response.move_index)
       IN  /\ V # {}
           /\ ReasonOf(response.detail) = FirstOf(order, V)

C10_TypeOK == \A g \in DOMAIN games : games[g].state \in Boards

\* What a step may do to the boards: no occupied cell and no player id
\* changes; a step that adds a Move row is an accepted make_move that
\* changes exactly the cell at its move_index, from "-" to the mover's
\* mark; any other step changes no state string.
C10_Step ==
    /\ \A g \in DOMAIN games :
          /\ g \in DOMAIN games'
          /\ games'[g].player_x_id = games[g].player_x_id
          /\ games'[g].player_o_id = games[g].player_o_id
          /\ \A i \in Cells :
                games[g].state[i] # "-" => games'[g].state[i] = games[g].state[i]
    /\ Len(moves') = Len(moves) + 1
       => LET m == moves'[Len(moves')]
              g == m.game_id
          IN  /\ Accepted(response')
              /\ response'.game_id = g
              /\ response'.move_index = m.move_index
              /\ response'.player_id = m.player_id
              /\ games[g].state[m.move_index] = "-"
              /\ games'[g].state[m.move_index]
                    = (IF m.player_id = games[g].player_x_id THEN "X" ELSE "O")
              /\ \A i \in Cells \ {m.move_index} :
                    games'[g].state[i] = games[g].state[i]
    /\ Len(moves') # Len(moves) + 1
       => \A g \in DOMAIN games : games'[g].state = games[g].state

\* C10 - Board cells are write-once: in every reachable state game.state
\* has exactly nine characters from "-", "X", "O"; across any step a cell
\* that holds X or O keeps that mark; an accepted make_move changes exactly
\* the cell at move_index from "-" to the mover's mark and leaves the other
\* eight cells and both player ids unchanged.
C10_CellsWriteOnce == []C10_TypeOK /\ [][C10_Step]_vars

\* O has just been given a cell on a board that already held marks of both.
C10_Witness ==
    /\ Accepted(response)
    /\ Len(Log(response.game_id)) = 4
    /\ games[response.game_id].state[response.move_index] = "O"
    /\ response.move_index > 0

\* C6 - Concurrent moves on one game are indivisible: with several
\* make_move requests in flight at once, each in its own session, the read
\* and the write of a request behave as one step, so that occupancy/log
\* agreement and turn alternation hold in every reachable state.
C6_ConcurrentMovesIndivisible ==
    /\ C2_OccupancyLogAgreement
    /\ C1_TurnAlternation

\* The order rows, columns, diagonals in which the eight lines are tried.
LineOrder == << {0, 1, 2}, {3, 4, 5}, {6, 7, 8},
                {0, 3, 6}, {1, 4, 7}, {2, 5, 8},
                {0, 4, 8}, {2, 4, 6} >>

Probed == probe.result # "unset"

\* C7 as claimed - Win detection on arbitrary boards: for every line and
\* every mark m, check_winner returns m on every board whose three cells
\* on that line all equal m, whatever the other six cells hold.
C7_AnyFilledLineWins ==
    Probed => \A L \in WinLines, m \in {"X", "O"} :
                 Filled(probe.state, L, m) => probe.result = m

\* The mark on the first line of LineOrder that is filled with one mark.
FirstFilledMark(state) ==
    LET k == CHOOSE k \in DOMAIN LineOrder :
                 /\ \E m \in {"X", "O"} : Filled(state, LineOrder[k], m)
                 /\ \A j \in 1 .. (k - 1), m \in {"X", "O"} :
                       ~Filled(state, LineOrder[j], m)
    IN  CHOOSE m \in {"X", "O"} : Filled(state, LineOrder[k], m)

\* C7 as amended: on every board whose three cells on a line all equal m,
\* check_winner returns the mark of the first filled line in the order
\* rows, columns, diagonals; that is m unless a line tried earlier is
\* filled with the other mark.
C7_FirstFilledLineWins ==
    Probed => \A k \in DOMAIN LineOrder, m \in {"X", "O"} :
                 Filled(probe.state, LineOrder[k], m)
                 => /\ probe.result = FirstFilledMark(probe.state)
                    /\ (\A j \in 1 .. (k - 1) :
                           ~Filled(probe.state, LineOrder[j], Other(m)))
                       => probe.result = m

\* check_winner has answered O on a board where a later line is filled
\* with X.
C7_Witness ==
    /\ probe.result = "O"
    /\ Filled(probe.state, {3, 4, 5}, "O")
    /\ Filled(probe.state, {6, 7, 8}, "X")

\* C8 - Draw detection: check_winner returns "draw" exactly when the board
\* has no "-" and no line of three identical marks, and None exactly when
\* no line is complete and a "-" remains.
C8_DrawDetection ==
    Probed =>
        LET full == EmptyCells(probe.state) = {}
            line == HasLine(probe.state, "X") \/ HasLine(probe.state, "O")
        IN  /\ probe.result = "draw" <=> (full /\ ~line)
            /\ probe.result = None <=> (~line /\ ~full)

\* check_winner has answered "draw".
C8_Witness ==
    /\ probe.result = "draw"
    /\ EmptyCells(probe.state) = {}

\* C9 - No conflicting winners: no board reached by sequential play holds
\* a complete line of X and a complete line of O at once.
C9_NoConflictingWinners ==
    \A g \in DOMAIN games :
        ~(HasLine(games[g].state, "X") /\ HasLine(games[g].state, "O"))

\* A board on which the last move completed two lines of X at once, so
\* that check_winner does choose between complete lines.
C9_Witness ==
    /\ games # << >>
    /\ Len(Log(1)) = 9
    /\ Cardinality({L \in WinLines : Filled(games[1].state, L, "X")}) = 2
    /\ games[1].winner = "X"

\* The positions of a game's moves in the order they were applied (the
\* order in which ApplyMove appended the rows).
Positions(game_id) == [k \in DOMAIN Log(game_id) |-> Log(game_id)[k].move_index]

\* The response carries the GameState of an existing game.
Served(r) == r.status = 200 /\ r.op \in {"create_game", "make_move",
                                         "get_game_state"}

\* C11 as claimed - Per-game sequence numbers: every move row is recorded
\* with a number equal to the number of moves already in its game's log (the
\* only number a Move row records is its id), so each game's log is
\* numbered 0, 1, 2, ... without gaps, and the moves list returned for a
\* game lists the positions in the order the moves were applied.
C11_PerGameSequenceNumbers ==
    /\ \A g \in DOMAIN games :
          \A k \in DOMAIN Log(g) : Log(g)[k].id = k - 1
    /\ Served(response) => response.body.moves = Positions(response.game_id)

\* C11 as amended: the number recorded with a move is the table-wide id,
\* which counts the moves of all games together from 1; within one game
\* the ids grow in the order the moves were applied, and the moves list
\* returned for a game lists the positions in that order.
C11_TableWideIds ==
    /\ \A k \in DOMAIN moves : moves[k].id = k
    /\ \A g \in DOMAIN games :
          /\ \A j \in DOMAIN Log(g), k \in DOMAIN Log(g) :
                j < k => Log(g)[j].id < Log(g)[k].id
          /\ to_gamestate(games, moves, g).moves = Positions(g)
    /\ Served(response) => response.body.moves = Positions(response.game_id)

\* Two games played in turn: the rows of game 1 have ids 1 and 3, the row
\* of game 2 has id 2, and game 1 has just been returned with its moves in
\* an order that is not the order of the cell indexes.
C11_Witness ==
    /\ Len(games) >= 2
    /\ Len(Log(1)) = 2 /\ Log(1)[1].id = 1 /\ Log(1)[2].id = 3
    /\ Len(Log(2)) = 1 /\ Log(2)[1].id = 2
    /\ Served(response) /\ response.game_id = 1
    /\ response.body.moves = <<1, 0>>

\* C12 - Distinct players: every game in the table, and every game a
\* successful create_game returns, has player_x_id # player_o_id; a
\* create_game request naming one id for both is answered with an error
\* and leaves the games table as it was.
C12_DistinctPlayers ==
    /\ [](/\ \A g \in DOMAIN games :
               games[g].player_x_id # games[g].player_o_id
          /\ (response.op = "create_game" /\ response.status = 200)
               => /\ response.body.player_x # response.body.player_o
                  /\ response.body.player_x = response.player_x_id
                  /\ response.body.player_o = response.player_o_id)
    /\ [][(response'.op = "create_game"
            /\ response'.player_x_id = response'.player_o_id)
           => (response'.status # 200 /\ games' = games)]_vars

\* An existing user is named as both players while a game exists, and is
\* refused.
C12_Witness ==
    /\ response.op = "create_game"
    /\ response.player_x_id = response.player_o_id
    /\ response.player_x_id \in Users
    /\ response.status = 404
    /\ Len(games) = 1

\* C13 - Typed rejections and exact acceptance: a make_move request on an
\* existing game is accepted exactly when it violates none of the five
\* rules (game without winner, player a participant, move_index in [0,8],
\* the player's mark is the mark due, the cell is "-"); a rejected request
\* is answered with the reason of a rule it does violate, each rule having
\* a reason of its own. After X@0, the X player moving at 1 is told it is
\* not their turn and the O player moving at 0 that the cell is taken.
C13_ExactAcceptance ==
    /\ [][(IsMoveResponse(response') /\ response'.game_id \in DOMAIN games)
           => LET game == games[response'.game_id]
                  p == response'.player_id
                  i == response'.move_index
                  reason == ReasonOf(response'.detail)
                  finished == game.winner # None
                  stranger == p # game.player_x_id /\ p # game.player_o_id
                  outside == i < 0 \/ i > 8
                  early ==
                      (IF p = game.player_x_id THEN "X" ELSE "O")
                          # MarkOfMove(Len(Log(response'.game_id)))
                  taken == ~outside /\ game.state[i] # "-"
              IN  /\ response'.status = 200
                       <=> ~(finished \/ stranger \/ outside \/ early
                             \/ taken)
                  /\ response'.status # 200
                       => \/ reason = "MatchFinished" /\ finished
                          \/ reason = "NotAParticipant" /\ stranger
                          \/ reason = "PositionOutOfRange" /\ outside
                          \/ reason = "NotYourTurn" /\ early
                          \/ reason = "CellOccupied" /\ taken]_vars
    /\ [](\A g \in DOMAIN games :
            (/\ Rejected(response) /\ response.game_id = g
             /\ Len(Log(g)) = 1 /\ games[g].state[0] = "X")
            => /\ (response.player_id = games[g].player_x_id
                   /\ response.move_index = 1)
                  => ReasonOf(response.detail) = "NotYourTurn"
               /\ (response.player_id = games[g].player_o_id
                   /\ response.move_index = 0)
                  => ReasonOf(response.detail) = "CellOccupied")

\* After X@0 the X player has asked for cell 1 and been told that it is
\* not X's turn.
C13_Witness ==
    /\ Rejected(response)
    /\ response.game_id \in DOMAIN games
    /\ Len(Log(response.game_id)) = 1
    /\ games[response.game_id].state[0] = "X"
    /\ response.player_id = games[response.game_id].player_x_id
    /\ response.move_index = 1
    /\ response.detail = "It is not X's turn"

\* C14 - Fresh game: the game a successful create_game returns, and the row
\* it stored, have state "---------", no moves and no winner, and it is
\* X's turn: get_current_turn says "X", a move of player_x would be
\* accepted and a move of player_o refused as out of turn.
C14_FreshGame ==
    (response.op = "create_game" /\ response.status = 200)
    => LET g == response.game_id
       IN  /\ g \in DOMAIN games
           /\ response.body.state = [i \in 0 .. 8 |-> "-"]
           /\ response.body.moves = << >>
           /\ response.body.winner = None
           /\ games[g].state = response.body.state
           /\ games[g].winner = None
           /\ Log(g) = << >>
           /\ get_current_turn(games[g].state) = "X"
           /\ Validate(g, games[g].player_x_id, MinIndex)[1] = 200
           /\ Validate(g, games[g].player_o_id, MinIndex)[2] = "It is not O's turn"

\* A second game has just been created while the moves table holds moves
\* of the first.
C14_Witness ==
    /\ response.op = "create_game" /\ response.status = 200
    /\ response.game_id = 2
    /\ Len(moves) >= 2

\* A stored game breaks the session invariants: the number of its moves
\* differs from the number of marks on its board, or the marks on the
\* board are not those of alternating turns starting with X.
Corrupt(state, n) ==
    \/ n # BoardLen - Count(state, "-")
    \/ Count(state, "X") \notin {Count(state, "O"), Count(state, "O") + 1}

CorruptStored(g) == Corrupt(games[g].state, Len(Log(g)))

\* C15 - Rehydration is validated: a game that breaks the session
\* invariants is never served by get_game_state, and while a stored game
\* breaks them a get_game_state on it is answered CorruptSession and no
\* make_move request on it gets past its load to apply a move.
C15_RehydrationValidated ==
    /\ []((response.op = "get_game_state" /\ response.status = 200)
           => ~Corrupt(response.body.state, Len(response.body.moves)))
    /\ [][\A g \in DOMAIN games :
            CorruptStored(g)
            => /\ (response' # response /\ response'.op = "get_game_state"
                   /\ response'.game_id = g)
                  => response'.detail = "CorruptSession"
               /\ \A s \in DOMAIN sessions :
                    (sessions[s].pc = "idle" /\ sessions'[s].pc = "loaded")
                    => sessions'[s].game_id # g]_vars

\* The outcome a board shows: the mark that holds a line, "draw" when it is
\* full without a line, None otherwise.
Outcome(state) ==
    IF HasLine(state, "X") THEN "X"
    ELSE IF HasLine(state, "O") THEN "O"
    ELSE IF EmptyCells(state) = {} THEN "draw"
    ELSE None

\* C16 - Stored outcome agrees with the board: under sequential play the
\* winner column of every game equals check_winner of its state string,
\* which is the outcome the board shows (None while in progress), and the
\* winner column only ever changes from None to "X", "O" or "draw".
C16_StoredOutcomeAgrees ==
    /\ [](\A g \in DOMAIN games :
            /\ games[g].winner = check_winner(games[g].state)
            /\ games[g].winner = Outcome(games[g].state))
    /\ [][\A g \in DOMAIN games :
            games'[g].winner # games[g].winner
            => /\ games[g].winner = None
               /\ games'[g].winner \in {"X", "O", "draw"}]_vars

\* O has won with its third mark, the earliest it can.
C16_Witness ==
    /\ games # << >>
    /\ games[1].winner = "O"
    /\ Len(Log(1)) = 6
    /\ Accepted(response)

\* The moves of the drawn game X@0, O@1, X@2, O@4, X@3, O@5, X@7, O@6, X@8.
DrawnGame == <<0, 1, 2, 4, 3, 5, 7, 6, 8>>

\* C17 - A winning ninth move is a win, not a draw: on a full board that
\* holds a line of X the stored winner, and the winner returned by the move
\* that filled it, is "X"; "draw" is stored only for a full board without
\* any line, as at the end of DrawnGame.
C17_NinthMoveWin ==
    /\ \A g \in DOMAIN games :
          LET st == games[g].state
          IN  /\ (EmptyCells(st) = {} /\ HasLine(st, "X"))
                 => games[g].winner = "X"
              /\ games[g].winner = "draw"
                 <=> /\ EmptyCells(st) = {}
                     /\ ~HasLine(st, "X") /\ ~HasLine(st, "O")
              /\ Positions(g) = DrawnGame => games[g].winner = "draw"
    /\ (Accepted(response) /\ Len(response.body.moves) = BoardLen
        /\ HasLine(response.body.state, "X"))
       => response.body.winner = "X"

\* The ninth move has filled the board and completed the one line of X on
\* it, and was answered with winner "X".
C17_Witness ==
    /\ Accepted(response)
    /\ Len(response.body.moves) = BoardLen
    /\ EmptyCells(response.body.state) = {}
    /\ Cardinality({L \in WinLines : Filled(response.body.state, L, "X")}) = 1
    /\ response.body.winner = "X"
    /\ games[response.game_id].winner = "X"

\* C18 - Games are independent: a step in which make_move answers a
\* request on game g, accepting or rejecting it, leaves the row (players,
\* state string, winner) and the move log of every other game as they
\* were, whatever games the requests before it were addressed to.
C18_GamesIndependent ==
    [][IsMoveResponse(response')
       => /\ DOMAIN games' = DOMAIN games
          /\ \A h \in DOMAIN games :
                h # response'.game_id
                => (games'[h] = games[h] /\ (Log(h))' = Log(h))]_vars

\* A move on game 2 has been accepted after a move on game 1, which is
\* still as that move left it.
C18_Witness ==
    /\ Accepted(response) /\ response.game_id = 2
    /\ Len(Log(2)) = 2
    /\ Positions(1) = <<1>>
    /\ games[1].state = new_state(EmptyBoard, 1, "X")

\* C19 - Only the mover can win: the winner an accepted make_move stores
\* and returns is None, "draw" or the mark of the player who made the move,
\* never the opponent's; a game whose winner is a mark was won by the
\* player of its last move, and has at least five moves.
C19_OnlyMoverWins ==
    /\ Accepted(response)
       => LET b == response.body
              mark == IF response.player_id = b.player_x THEN "X" ELSE "O"
          IN  /\ b.winner = games[response.game_id].winner
              /\ b.winner \in {None, "draw", mark}
              /\ b.winner # Other(mark)
              /\ b.winner \in {"X", "O"} => Len(b.moves) >= 5
    /\ \A g \in DOMAIN games :
          games[g].winner \in {"X", "O"}
          => /\ Len(Log(g)) >= 5
             /\ games[g].winner
                  = PlayerType(games[g], Log(g)[Len(Log(g))].player_id)

\* X has won with its third mark, on the fifth move of the game.
C19_Witness ==
    /\ Accepted(response)
    /\ response.player_id = response.body.player_x
    /\ response.body.winner = "X"
    /\ Len(response.body.moves) = 5

\* No game has more than nine moves, a game with nine has a winner, and in
\* a game without winner the player whose turn it is has an empty cell at
\* which make_move would accept them.
C20_NeverStuck ==
    \A g \in DOMAIN games :
        /\ Len(Log(g)) <= BoardLen
        /\ Len(Log(g)) = BoardLen => games[g].winner # None
        /\ games[g].winner = None
           => \E i \in EmptyCells(games[g].state) :
                 Validate(g, PlayerDue(g), i)[1] = 200

\* C20 - Every match ends and never gets stuck: C20_NeverStuck holds in
\* every state, and with legal moves being submitted for as long as there
\* are any, a game that has been created eventually has winner "X", "O"
\* or "draw".
C20_EveryMatchEnds ==
    /\ []C20_NeverStuck
    /\ (games # << >>)
          ~> (games # << >> /\ games[1].winner \in {"X", "O", "draw"})

\* O has just ended the game with the eighth move.
C20_Witness ==
    /\ Accepted(response)
    /\ response.body.winner = "O"
    /\ Len(response.body.moves) = 8
    /\ games[response.game_id].winner = "O"

====
